---- MODULE Spec2Model ----
(***************************************************************************)
(* Model of the e-commerce demo service in src/fastapi_app/main.py: two    *)
(* in-memory mappings (products_db, orders_db) and the asyncio handlers    *)
(* create_product, create_order, get_order and stress_test.                *)
(*                                                                         *)
(* The handlers are coroutines on one event loop: a handler runs without   *)
(* interruption until it awaits.  The only await in the handlers is the    *)
(* asyncio.sleep inside process_payment (line 169), so create_order is two *)
(* atomic steps (lines 183-169 and lines 170-220) and the other handlers   *)
(* are one atomic step each.                                               *)
(***************************************************************************)
EXTENDS Integers, Sequences, FiniteSets, TLC

\* ---------------------------------------------------------------- bounds
MaxInFlight == 2   \* create_order requests that may be suspended at once
MaxLen      == 2   \* longest product_ids list of a create_order request
MaxStock    == 1   \* largest stock of a submitted product
MaxUuid     == 2   \* uuid4() calls, i.e. create_order requests, per run

ProductIds == {"p1", "p2"}
Stocks     == 0..MaxStock
Reqs       == 1..MaxInFlight
OrderIds   == 1..MaxUuid
StressResults == {0, 1}

\* Product(BaseModel): id, name, price, stock.  The submitted records: two
\* identifiers with different prices, each with every stock of Stocks
Product ==
    {[id |-> "p1", name |-> "widget", price |-> 1, stock |-> s] : s \in Stocks}
    \cup
    {[id |-> "p2", name |-> "gadget", price |-> 2, stock |-> s] : s \in Stocks}

\* every list of product identifiers of length 0..MaxLen
IdLists == UNION {[1..n -> ProductIds] : n \in 0..MaxLen}

VARIABLES
    products_db,   \* id -> Product record
    orders_db,     \* order id -> Order record
    registered,    \* history: id -> stock submitted to create_product
    uuids,         \* number of uuid4() values drawn so far
    pc,            \* per request slot: "idle" or "pay" (suspended in the sleep)
    product_ids,   \* per slot: argument of the suspended create_order
    order_id,      \* per slot: local order_id of the suspended create_order
    total,         \* per slot: local total of the suspended create_order
    handler,       \* the handler whose request completed last
    response       \* the HTTP response it produced: [status, detail, body]

vars == <<products_db, orders_db, registered, uuids, pc, product_ids,
          order_id, total, handler, response>>

locals == <<pc, product_ids, order_id, total>>

\* ------------------------------------------------------------- helpers
NoBody == [none |-> TRUE]

\* raise HTTPException(status_code=..., detail=...)
HTTPException(status_code, detail) ==
    [status |-> status_code, detail |-> detail, body |-> NoBody]

\* a handler's normal return, serialised with status 200
Ok(body) == [status |-> 200, detail |-> <<>>, body |-> body]

\* Order(id=order_id, products=product_ids, total=total, status="completed")
Order(oid, pids, tot, st) ==
    [id |-> oid, products |-> pids, total |-> tot, status |-> st]

\* d[k] = v on a dict
Put(d, k, v) == [x \in DOMAIN d \cup {k} |-> IF x = k THEN v ELSE d[x]]

\* Validate that steps over an unknown identifier instead of raising
RECURSIVE ValidateSkipUnknown(_, _, _, _)
ValidateSkipUnknown(db, pids, i, tot) ==
    IF i > Len(pids) THEN [ok |-> TRUE, total |-> tot, error |-> NoBody]
    ELSE IF pids[i] \notin DOMAIN db
         THEN ValidateSkipUnknown(db, pids, i + 1, tot)
    ELSE IF db[pids[i]].stock <= 0
         THEN [ok |-> FALSE, total |-> tot,
               error |-> HTTPException(400, <<"Product out of stock", pids[i]>>)]
    ELSE ValidateSkipUnknown(db, pids, i + 1, tot + db[pids[i]].price)

\* Validate whose stock test is stock < 0
RECURSIVE ValidateNegativeOnly(_, _, _, _)
ValidateNegativeOnly(db, pids, i, tot) ==
    IF i > Len(pids) THEN [ok |-> TRUE, total |-> tot, error |-> NoBody]
    ELSE IF pids[i] \notin DOMAIN db
         THEN [ok |-> FALSE, total |-> tot,
               error |-> HTTPException(404, <<"Product not found", pids[i]>>)]
    ELSE IF db[pids[i]].stock < 0
         THEN [ok |-> FALSE, total |-> tot,
               error |-> HTTPException(400, <<"Product out of stock", pids[i]>>)]
    ELSE ValidateNegativeOnly(db, pids, i + 1, tot + db[pids[i]].price)

\* Validate that tests the stock of the first listed identifier only
RECURSIVE ValidateFirstOnly(_, _, _, _)
ValidateFirstOnly(db, pids, i, tot) ==
    IF i > Len(pids) THEN [ok |-> TRUE, total |-> tot, error |-> NoBody]
    ELSE IF pids[i] \notin DOMAIN db
         THEN [ok |-> FALSE, total |-> tot,
               error |-> HTTPException(404, <<"Product not found", pids[i]>>)]
    ELSE IF i = 1 /\ db[pids[i]].stock <= 0
         THEN [ok |-> FALSE, total |-> tot,
               error |-> HTTPException(400, <<"Product out of stock", pids[i]>>)]
    ELSE ValidateFirstOnly(db, pids, i + 1, tot + db[pids[i]].price)

\* Validate in two passes: every identifier is looked up before any stock
\* is tested
RECURSIVE ValidateExistenceFirst(_, _, _, _)
ValidateExistenceFirst(db, pids, i, tot) ==
    IF \E j \in i..Len(pids) : pids[j] \notin DOMAIN db
    THEN LET k == CHOOSE j \in i..Len(pids) :
                      /\ pids[j] \notin DOMAIN db
                      /\ \A m \in i..(j - 1) : pids[m] \in DOMAIN db
         IN  [ok |-> FALSE, total |-> tot,
              error |-> HTTPException(404, <<"Product not found", pids[k]>>)]
    ELSE IF i > Len(pids) THEN [ok |-> TRUE, total |-> tot, error |-> NoBody]
    ELSE IF db[pids[i]].stock <= 0
         THEN [ok |-> FALSE, total |-> tot,
               error |-> HTTPException(400, <<"Product out of stock", pids[i]>>)]
    ELSE ValidateExistenceFirst(db, pids, i + 1, tot + db[pids[i]].price)

\* Validate that sets the earlier occurrences of an identifier in the list
\* against its stock
RECURSIVE ValidateCounting(_, _, _, _)
ValidateCounting(db, pids, i, tot) ==
    IF i > Len(pids) THEN [ok |-> TRUE, total |-> tot, error |-> NoBody]
    ELSE IF pids[i] \notin DOMAIN db
         THEN [ok |-> FALSE, total |-> tot,
               error |-> HTTPException(404, <<"Product not found", pids[i]>>)]
    ELSE IF db[pids[i]].stock
              - Cardinality({j \in 1..(i - 1) : pids[j] = pids[i]}) <= 0
         THEN [ok |-> FALSE, total |-> tot,
               error |-> HTTPException(400, <<"Product out of stock", pids[i]>>)]
    ELSE ValidateCounting(db, pids, i + 1, tot + db[pids[i]].price)

\* Validate that refuses an empty list
RECURSIVE ValidateNonEmpty(_, _, _, _)
ValidateNonEmpty(db, pids, i, tot) ==
    IF pids = <<>>
    THEN [ok |-> FALSE, total |-> tot,
          error |-> HTTPException(400, <<"No products">>)]
    ELSE IF i > Len(pids) THEN [ok |-> TRUE, total |-> tot, error |-> NoBody]
    ELSE IF pids[i] \notin DOMAIN db
         THEN [ok |-> FALSE, total |-> tot,
               error |-> HTTPException(404, <<"Product not found", pids[i]>>)]
    ELSE IF db[pids[i]].stock <= 0
         THEN [ok |-> FALSE, total |-> tot,
               error |-> HTTPException(400, <<"Product out of stock", pids[i]>>)]
    ELSE ValidateNonEmpty(db, pids, i + 1, tot + db[pids[i]].price)

\* the validation loop of create_order, from position i with running total
\* tot: the first offending identifier raises, otherwise the total is kept
RECURSIVE Validate(_, _, _, _)
Validate(db, pids, i, tot) ==
    IF i > Len(pids) THEN [ok |-> TRUE, total |-> tot, error |-> NoBody]
    ELSE IF pids[i] \notin DOMAIN db
         THEN [ok |-> FALSE, total |-> tot,
               error |-> HTTPException(404, <<"Product not found", pids[i]>>)]
    ELSE IF db[pids[i]].stock <= 0
         THEN [ok |-> FALSE, total |-> tot,
               error |-> HTTPException(400, <<"Product out of stock", pids[i]>>)]
    ELSE Validate(db, pids, i + 1, tot + db[pids[i]].price)

\* UpdateInventory that decrements each listed product once, however often
\* its identifier is listed
UpdateInventoryDistinct(db, pids, i) ==
    [p \in DOMAIN db |->
        IF \E j \in i..Len(pids) : pids[j] = p
        THEN [db[p] EXCEPT !.stock = @ - 1]
        ELSE db[p]]

\* UpdateInventory whose loop stops one identifier short
RECURSIVE UpdateInventoryOffByOne(_, _, _)
UpdateInventoryOffByOne(db, pids, i) ==
    IF i >= Len(pids) THEN db
    ELSE UpdateInventoryOffByOne(
            [db EXCEPT ![pids[i]].stock = @ - 1], pids, i + 1)

\* the inventory loop of create_order: one decrement per listed identifier
RECURSIVE UpdateInventory(_, _, _)
UpdateInventory(db, pids, i) ==
    IF i > Len(pids) THEN db
    ELSE UpdateInventory(
            [db EXCEPT ![pids[i]].stock = @ - 1], pids, i + 1)

\* ---------------------------------------------------------------- Init
Init ==
    /\ products_db = <<>>
    /\ orders_db = <<>>
    /\ registered = <<>>
    /\ uuids = 0
    /\ pc = [r \in Reqs |-> "idle"]
    /\ product_ids = [r \in Reqs |-> <<>>]
    /\ order_id = [r \in Reqs |-> 0]
    /\ total = [r \in Reqs |-> 0]
    /\ handler = "none"
    /\ response = Ok(NoBody)

\* -------------------------------------------------------------- actions
\* create_product that overwrites the record of an identifier already present
create_product_upsert(product) ==
    /\ handler' = "create_product"
    /\ products_db' = Put(products_db, product.id, product)
    /\ registered' = Put(registered, product.id, product.stock)
    /\ response' = Ok(product)
    /\ UNCHANGED <<orders_db, uuids, locals>>

\* create_product that answers 200 for an identifier already present,
\* without storing
create_product_idempotent(product) ==
    /\ handler' = "create_product"
    /\ response' = Ok(product)
    /\ IF product.id \in DOMAIN products_db
       THEN UNCHANGED <<products_db, registered>>
       ELSE /\ products_db' = Put(products_db, product.id, product)
            /\ registered' = Put(registered, product.id, product.stock)
    /\ UNCHANGED <<orders_db, uuids, locals>>

\* create_product that adds the submitted stock to a product already present
create_product_restock(product) ==
    /\ handler' = "create_product"
    /\ IF product.id \in DOMAIN products_db
       THEN /\ products_db' = [products_db EXCEPT
                                  ![product.id].stock = @ + product.stock]
            /\ response' = Ok(products_db'[product.id])
            /\ UNCHANGED registered
       ELSE /\ products_db' = Put(products_db, product.id, product)
            /\ registered' = Put(registered, product.id, product.stock)
            /\ response' = Ok(product)
    /\ UNCHANGED <<orders_db, uuids, locals>>

\* POST /products/
create_product(product) ==
    /\ handler' = "create_product"
    /\ IF product.id \in DOMAIN products_db
       THEN /\ response' = HTTPException(400, <<"Product ID already exists">>)
            /\ UNCHANGED <<products_db, registered>>
       ELSE /\ products_db' = Put(products_db, product.id, product)
            /\ registered' = Put(registered, product.id, product.stock)
            /\ response' = Ok(product)
    /\ UNCHANGED <<orders_db, uuids, locals>>

\* create_order whose order_id is the number of stored orders plus one
create_order_count_id(r, pids) ==
    /\ pc[r] = "idle"
    /\ \A q \in Reqs : q < r => pc[q] = "pay"
    /\ uuids < MaxUuid
    /\ uuids' = uuids + 1
    /\ LET v == Validate(products_db, pids, 1, 0) IN
       IF v.ok
       THEN /\ pc' = [pc EXCEPT ![r] = "pay"]
            /\ product_ids' = [product_ids EXCEPT ![r] = pids]
            /\ order_id' = [order_id EXCEPT
                               ![r] = Cardinality(DOMAIN orders_db) + 1]
            /\ total' = [total EXCEPT ![r] = v.total]
            /\ UNCHANGED <<handler, response>>
       ELSE /\ handler' = "create_order"
            /\ response' = v.error
            /\ UNCHANGED locals
    /\ UNCHANGED <<products_db, orders_db, registered>>

\* POST /orders/, up to the asyncio.sleep of process_payment
create_order(r, pids) ==
    /\ pc[r] = "idle"
    /\ \A q \in Reqs : q < r => pc[q] = "pay"  \* the first free slot
    /\ uuids < MaxUuid
    /\ uuids' = uuids + 1
    /\ LET v == Validate(products_db, pids, 1, 0) IN
       IF v.ok
       THEN /\ pc' = [pc EXCEPT ![r] = "pay"]
            /\ product_ids' = [product_ids EXCEPT ![r] = pids]
            /\ order_id' = [order_id EXCEPT ![r] = uuids + 1]
            /\ total' = [total EXCEPT ![r] = v.total]
            /\ UNCHANGED <<handler, response>>
       ELSE /\ handler' = "create_order"
            /\ response' = v.error
            /\ UNCHANGED locals
    /\ UNCHANGED <<products_db, orders_db, registered>>

\* process_payment after which create_order validates the stock once more
process_payment_recheck(r, success) ==
    /\ pc[r] = "pay"
    /\ handler' = "create_order"
    /\ LET v == Validate(products_db, product_ids[r], 1, 0) IN
       IF ~success
       THEN /\ response' = HTTPException(400, <<"Payment failed">>)
            /\ UNCHANGED <<products_db, orders_db>>
       ELSE IF ~v.ok
       THEN /\ response' = v.error
            /\ UNCHANGED <<products_db, orders_db>>
       ELSE LET order == Order(order_id[r], product_ids[r], total[r],
                               "completed") IN
            /\ products_db' = UpdateInventory(products_db, product_ids[r], 1)
            /\ orders_db' = Put(orders_db, order_id[r], order)
            /\ response' = Ok(order)
    /\ pc' = [pc EXCEPT ![r] = "idle"]
    /\ product_ids' = [product_ids EXCEPT ![r] = <<>>]
    /\ order_id' = [order_id EXCEPT ![r] = 0]
    /\ total' = [total EXCEPT ![r] = 0]
    /\ UNCHANGED <<registered, uuids>>

\* create_order that updates the inventory before it looks at the payment
process_payment_decrement_first(r, success) ==
    /\ pc[r] = "pay"
    /\ handler' = "create_order"
    /\ products_db' = UpdateInventory(products_db, product_ids[r], 1)
    /\ IF ~success
       THEN /\ response' = HTTPException(400, <<"Payment failed">>)
            /\ UNCHANGED orders_db
       ELSE LET order == Order(order_id[r], product_ids[r], total[r],
                               "completed") IN
            /\ orders_db' = Put(orders_db, order_id[r], order)
            /\ response' = Ok(order)
    /\ pc' = [pc EXCEPT ![r] = "idle"]
    /\ product_ids' = [product_ids EXCEPT ![r] = <<>>]
    /\ order_id' = [order_id EXCEPT ![r] = 0]
    /\ total' = [total EXCEPT ![r] = 0]
    /\ UNCHANGED <<registered, uuids>>

\* create_order that records a declined order with status "failed"
process_payment_store_failed(r, success) ==
    /\ pc[r] = "pay"
    /\ handler' = "create_order"
    /\ IF ~success
       THEN /\ response' = HTTPException(400, <<"Payment failed">>)
            /\ orders_db' = Put(orders_db, order_id[r],
                    Order(order_id[r], product_ids[r], total[r], "failed"))
            /\ UNCHANGED products_db
       ELSE LET order == Order(order_id[r], product_ids[r], total[r],
                               "completed") IN
            /\ products_db' = UpdateInventory(products_db, product_ids[r], 1)
            /\ orders_db' = Put(orders_db, order_id[r], order)
            /\ response' = Ok(order)
    /\ pc' = [pc EXCEPT ![r] = "idle"]
    /\ product_ids' = [product_ids EXCEPT ![r] = <<>>]
    /\ order_id' = [order_id EXCEPT ![r] = 0]
    /\ total' = [total EXCEPT ![r] = 0]
    /\ UNCHANGED <<registered, uuids>>

\* process_payment that tries again after a declined payment: the request
\* stays suspended
process_payment_retry(r, success) ==
    /\ pc[r] = "pay"
    /\ handler' = "create_order"
    /\ IF ~success
       THEN /\ response' = HTTPException(400, <<"Payment failed">>)
            /\ UNCHANGED <<products_db, orders_db, locals>>
       ELSE LET order == Order(order_id[r], product_ids[r], total[r],
                               "completed") IN
            /\ products_db' = UpdateInventory(products_db, product_ids[r], 1)
            /\ orders_db' = Put(orders_db, order_id[r], order)
            /\ response' = Ok(order)
            /\ pc' = [pc EXCEPT ![r] = "idle"]
            /\ product_ids' = [product_ids EXCEPT ![r] = <<>>]
            /\ order_id' = [order_id EXCEPT ![r] = 0]
            /\ total' = [total EXCEPT ![r] = 0]
    /\ UNCHANGED <<registered, uuids>>

\* the rest of create_order once the sleep of process_payment is over:
\* process_payment draws success and returns it, create_order goes on
process_payment(r, success) ==
    /\ pc[r] = "pay"
    /\ handler' = "create_order"
    /\ IF ~success
       THEN /\ response' = HTTPException(400, <<"Payment failed">>)
            /\ UNCHANGED <<products_db, orders_db>>
       ELSE LET order == Order(order_id[r], product_ids[r], total[r],
                               "completed") IN
            /\ products_db' = UpdateInventory(products_db, product_ids[r], 1)
            /\ orders_db' = Put(orders_db, order_id[r], order)
            /\ response' = Ok(order)
    /\ pc' = [pc EXCEPT ![r] = "idle"]
    /\ product_ids' = [product_ids EXCEPT ![r] = <<>>]
    /\ order_id' = [order_id EXCEPT ![r] = 0]
    /\ total' = [total EXCEPT ![r] = 0]
    /\ UNCHANGED <<registered, uuids>>

\* get_order that answers 200 with an empty body for an unknown identifier
get_order_default(oid) ==
    /\ handler' = "get_order"
    /\ response' = IF oid \notin DOMAIN orders_db
                   THEN Ok(NoBody)
                   ELSE Ok(orders_db[oid])
    /\ UNCHANGED <<products_db, orders_db, registered, uuids, locals>>

\* GET /orders/{order_id}
get_order(oid) ==
    /\ handler' = "get_order"
    /\ response' = IF oid \notin DOMAIN orders_db
                   THEN HTTPException(404, <<"Order not found">>)
                   ELSE Ok(orders_db[oid])
    /\ UNCHANGED <<products_db, orders_db, registered, uuids, locals>>

\* GET /stress-test
stress_test(result) ==
    /\ handler' = "stress_test"
    /\ response' = Ok([status |-> "completed", result |-> result])
    /\ UNCHANGED <<products_db, orders_db, registered, uuids, locals>>

CreateProduct  == \E product \in Product : create_product(product)
CreateOrder    == \E r \in Reqs, pids \in IdLists : create_order(r, pids)
ProcessPayment == \E r \in Reqs, success \in BOOLEAN : process_payment(r, success)
GetOrder       == \E oid \in OrderIds : get_order(oid)
StressTest     == \E result \in StressResults : stress_test(result)

Next ==
    \/ CreateProduct
    \/ CreateOrder
    \/ ProcessPayment
    \/ GetOrder
    \/ StressTest

Spec == Init /\ [][Next]_vars

\* create_order requests that do not overlap: a request starts only when no
\* other create_order is suspended in its payment
NoneInFlight == \A r \in Reqs : pc[r] = "idle"

CreateOrderSeq == NoneInFlight /\ CreateOrder

NextSeq ==
    \/ CreateProduct
    \/ CreateOrderSeq
    \/ ProcessPayment
    \/ GetOrder
    \/ StressTest

SpecSeq == Init /\ [][NextSeq]_vars

\* the sleep of process_payment lasts at most 0.5 s and no handler blocks
\* the event loop for ever, so every suspended request is resumed
PaymentResumes(r) == \E success \in BOOLEAN : process_payment(r, success)

SpecFair == Spec /\ \A r \in Reqs : WF_vars(PaymentResumes(r))

\* =============================================================== claims
\* number of occurrences of identifier p in the list pids
Count(p, pids) == Cardinality({i \in DOMAIN pids : pids[i] = p})

\* the identifiers a list holds
Listed(pids) == {pids[i] : i \in DOMAIN pids}

\* sum of the unit prices of the listed identifiers, with multiplicity
RECURSIVE SumPrices(_, _)
SumPrices(db, pids) ==
    IF pids = <<>> THEN 0
    ELSE db[Head(pids)].price + SumPrices(db, Tail(pids))

\* position of the first identifier of pids that is in the set bad (0: none)
FirstIn(pids, bad) ==
    IF \E i \in DOMAIN pids : pids[i] \in bad
    THEN CHOOSE i \in DOMAIN pids :
            /\ pids[i] \in bad
            /\ \A j \in 1..(i - 1) : pids[j] \notin bad
    ELSE 0

Unknown == ProductIds \ DOMAIN products_db
OutOfStock == {p \in DOMAIN products_db : products_db[p].stock <= 0}

\* ---------------------------------------------------------------- C1
\* C1: whenever the payment of a suspended create_order is accepted, the
\* request answers 200, the stock of every product drops by exactly the
\* number of occurrences of its identifier in the request (0 for a product
\* not listed), nothing else of a product changes, and the order returned and
\* stored has the request's list and the sum of the listed unit prices.
C1_SuccessDecrementsPerOccurrence ==
    [][\A r \in Reqs :
          process_payment(r, TRUE) =>
            /\ response'.status = 200
            /\ DOMAIN products_db' = DOMAIN products_db
            /\ \A p \in DOMAIN products_db :
                  products_db'[p] =
                     [products_db[p] EXCEPT
                         !.stock = @ - Count(p, product_ids[r])]
            /\ response'.body.products = product_ids[r]
            /\ response'.body.total = SumPrices(products_db, product_ids[r])
            /\ order_id[r] \in DOMAIN orders_db'
            /\ orders_db'[order_id[r]] = response'.body]_vars

\* an order listing one identifier twice was just returned: that product's
\* stock is two below the registered one, the other product's is untouched
C1_Witness ==
    \E o \in DOMAIN orders_db, p \in DOMAIN products_db,
       q \in DOMAIN products_db :
        /\ p # q
        /\ handler = "create_order"
        /\ response = Ok(orders_db[o])
        /\ orders_db[o].products = <<p, p>>
        /\ orders_db[o].total = 2 * products_db[p].price
        /\ products_db[p].stock = registered[p] - 2
        /\ products_db[q].stock = registered[q]

\* ---------------------------------------------------------------- C2
\* C2: the stock is not looked at again after the payment: an accepted
\* payment of a suspended request stores its order and decrements every
\* listed product even when another request has meanwhile taken a listed
\* product's stock to 0 or below.  So two overlapping requests for a product
\* of stock 1 both succeed and leave the stock at -1 (C2_Witness).
C2_AcceptedPaymentIgnoresStock ==
    [][\A r \in Reqs :
          (/\ process_payment(r, TRUE)
           /\ \E p \in Listed(product_ids[r]) : products_db[p].stock <= 0)
          =>
            /\ response'.status = 200
            /\ order_id[r] \in DOMAIN orders_db'
            /\ \A p \in Listed(product_ids[r]) :
                  products_db'[p].stock < products_db[p].stock]_vars

\* a product registered with stock 1, two stored orders for exactly that
\* product, stock -1
C2_Witness ==
    \E p \in DOMAIN products_db, o1 \in DOMAIN orders_db,
       o2 \in DOMAIN orders_db :
        /\ o1 # o2
        /\ registered[p] = 1
        /\ orders_db[o1].products = <<p>>
        /\ orders_db[o2].products = <<p>>
        /\ orders_db[o1].status = "completed"
        /\ orders_db[o2].status = "completed"
        /\ products_db[p].stock = -1

\* ---------------------------------------------------------------- C3
\* C3 as stated: a create_order whose list holds an unknown identifier
\* answers 404 and changes no stock and stores no order.
C3_Original ==
    [][\A r \in Reqs, pids \in IdLists :
          (create_order(r, pids) /\ Listed(pids) \cap Unknown # {})
          =>
            /\ response'.status = 404
            /\ UNCHANGED <<products_db, orders_db>>]_vars

\* C3 amended: a create_order whose list holds an unknown identifier fails
\* at once and changes no stock and stores no order; the error is 404 naming
\* the first unknown identifier, unless a product with stock <= 0 is listed
\* before it, and then it is 400 out-of-stock.
C3_UnknownIdFails ==
    [][\A r \in Reqs, pids \in IdLists :
          (create_order(r, pids) /\ Listed(pids) \cap Unknown # {})
          =>
            LET k == FirstIn(pids, Unknown)
                oos == \E j \in 1..(k - 1) : pids[j] \in OutOfStock
            IN  /\ handler' = "create_order"
                /\ response'.status = IF oos THEN 400 ELSE 404
                /\ ~oos => response' =
                      HTTPException(404, <<"Product not found", pids[k]>>)
                /\ oos => response'.detail[1] = "Product out of stock"
                /\ pc' = pc
                /\ UNCHANGED <<products_db, orders_db>>]_vars

\* a 404 for an unknown identifier, answered while a product with stock > 0
\* is registered (so the unknown one may sit behind a valid one)
C3_Witness ==
    \E p \in Unknown, q \in DOMAIN products_db :
        /\ handler = "create_order"
        /\ response = HTTPException(404, <<"Product not found", p>>)
        /\ products_db[q].stock > 0
        /\ products_db[q].stock = registered[q]
        /\ orders_db = <<>>

\* ---------------------------------------------------------------- C4
\* C4 as stated: a create_order listing a product whose stock is <= 0
\* answers 400 out-of-stock and changes no stock and stores no order.
C4_Original ==
    [][\A r \in Reqs, pids \in IdLists :
          (create_order(r, pids) /\ Listed(pids) \cap OutOfStock # {})
          =>
            /\ response'.status = 400
            /\ response'.detail[1] = "Product out of stock"
            /\ UNCHANGED <<products_db, orders_db>>]_vars

\* C4 amended: a create_order listing a product whose stock is <= 0 fails at
\* once and changes no stock and stores no order; the error is 400
\* out-of-stock naming the first such product, unless an unknown identifier
\* is listed before it, and then it is 404 not-found.
C4_OutOfStockFails ==
    [][\A r \in Reqs, pids \in IdLists :
          (create_order(r, pids) /\ Listed(pids) \cap OutOfStock # {})
          =>
            LET k == FirstIn(pids, OutOfStock)
                unk == \E j \in 1..(k - 1) : pids[j] \in Unknown
            IN  /\ handler' = "create_order"
                /\ response'.status = IF unk THEN 404 ELSE 400
                /\ ~unk => response' =
                      HTTPException(400, <<"Product out of stock", pids[k]>>)
                /\ unk => response'.detail[1] = "Product not found"
                /\ pc' = pc
                /\ UNCHANGED <<products_db, orders_db>>]_vars

\* a 400 out-of-stock for a product whose stock is 0, answered while
\* another product has stock > 0
C4_Witness ==
    \E p \in OutOfStock, q \in DOMAIN products_db :
        /\ handler = "create_order"
        /\ response = HTTPException(400, <<"Product out of stock", p>>)
        /\ products_db[q].stock > 0
        /\ NoneInFlight

\* ---------------------------------------------------------------- C5
\* C5: when the payment of a suspended create_order is declined the request
\* answers 400 "Payment failed" and neither mapping changes.
C5_DeclinedPaymentMutatesNothing ==
    [][\A r \in Reqs :
          process_payment(r, FALSE) =>
            /\ handler' = "create_order"
            /\ response' = HTTPException(400, <<"Payment failed">>)
            /\ pc'[r] = "idle"
            /\ UNCHANGED <<products_db, orders_db>>]_vars

\* a declined payment was just answered: every stock is as registered, some
\* stock is positive, no order is stored
C5_Witness ==
    /\ handler = "create_order"
    /\ response = HTTPException(400, <<"Payment failed">>)
    /\ orders_db = <<>>
    /\ \E p \in DOMAIN products_db : products_db[p].stock > 0
    /\ \A p \in DOMAIN products_db : products_db[p].stock = registered[p]

\* ---------------------------------------------------------------- C6
\* C6: create_product with an identifier already present answers 400
\* "Product ID already exists" and changes neither mapping; with a new
\* identifier it stores the submitted record as it is, returns it, and
\* leaves every other product and every order as they were.
C6_CreateProductConflictOrStore ==
    [][\A product \in Product :
          create_product(product) =>
            /\ handler' = "create_product"
            /\ orders_db' = orders_db
            /\ IF product.id \in DOMAIN products_db
               THEN /\ response' =
                         HTTPException(400, <<"Product ID already exists">>)
                    /\ products_db' = products_db
               ELSE /\ response' = Ok(product)
                    /\ DOMAIN products_db' = DOMAIN products_db \cup {product.id}
                    /\ products_db'[product.id] = product
                    /\ \A p \in DOMAIN products_db :
                          products_db'[p] = products_db[p]]_vars

\* a conflict was just answered while a product is stored whose stock is
\* the registered one (a resubmission with another stock did not alter it)
C6_Witness ==
    /\ handler = "create_product"
    /\ response = HTTPException(400, <<"Product ID already exists">>)
    /\ \E p \in DOMAIN products_db :
          /\ products_db[p].id = p
          /\ products_db[p].stock = registered[p]

\* ---------------------------------------------------------------- C7
\* C7: get_order changes neither mapping; for an identifier absent from the
\* order mapping it answers 404 "Order not found", for one present it
\* answers 200 with the stored order, which carries the identifier asked
\* for, status "completed", and a total that is the sum of the unit prices
\* of its product list.
C7_GetOrderReadOnly ==
    [][\A oid \in OrderIds :
          get_order(oid) =>
            /\ handler' = "get_order"
            /\ UNCHANGED <<products_db, orders_db>>
            /\ IF oid \notin DOMAIN orders_db
               THEN response' = HTTPException(404, <<"Order not found">>)
               ELSE /\ response'.status = 200
                    /\ response'.body = orders_db[oid]
                    /\ response'.body.id = oid
                    /\ response'.body.status = "completed"
                    /\ response'.body.total =
                          SumPrices(products_db, response'.body.products)]_vars

\* get_order has just returned a stored order
C7_Witness ==
    /\ handler = "get_order"
    /\ \E o \in DOMAIN orders_db :
          /\ response = Ok(orders_db[o])
          /\ orders_db[o].id = o
          /\ orders_db[o].products # <<>>

\* ---------------------------------------------------------------- C8
\* C8: when create_order requests do not overlap, a product registered with
\* a non-negative stock never has a negative stock.
C8_StockNeverNegative ==
    \A p \in DOMAIN products_db :
        registered[p] >= 0 => products_db[p].stock >= 0

\* ---------------------------------------------------------------- C9
\* C9: when create_order requests do not overlap, for a product p registered
\* with stock 1: a create_order [p] whose payment is accepted answers 200
\* with total p's price and leaves p's stock at 0; and once such an order is
\* stored, p's stock is 0 and stays 0, and every create_order whose list
\* holds p and only existing identifiers answers 400 out-of-stock.
C9_FirstOrderThenOutOfStock ==
    [][\A p \in DOMAIN products_db :
          registered[p] = 1 =>
            /\ \A r \in Reqs :
                  (process_payment(r, TRUE) /\ product_ids[r] = <<p>>) =>
                     /\ response'.status = 200
                     /\ response'.body.products = <<p>>
                     /\ response'.body.total = products_db[p].price
                     /\ products_db'[p].stock = 0
            /\ (\E o \in DOMAIN orders_db : orders_db[o].products = <<p>>) =>
                  /\ products_db[p].stock = 0
                  /\ products_db'[p].stock = 0
                  /\ \A r \in Reqs, pids \in IdLists :
                        (/\ create_order(r, pids)
                         /\ p \in Listed(pids)
                         /\ Listed(pids) \subseteq DOMAIN products_db)
                        =>
                          /\ handler' = "create_order"
                          /\ response'.status = 400
                          /\ response'.detail[1] = "Product out of stock"
                          /\ pc' = pc
                          /\ orders_db' = orders_db]_vars

\* the order [p] of a product registered with stock 1 is stored, the stock
\* is 0, and a later create_order has just been refused as out of stock
C9_Witness ==
    \E p \in DOMAIN products_db, o \in DOMAIN orders_db :
        /\ registered[p] = 1
        /\ orders_db[o].products = <<p>>
        /\ orders_db[o].total = products_db[p].price
        /\ products_db[p].stock = 0
        /\ handler = "create_order"
        /\ response = HTTPException(400, <<"Product out of stock", p>>)

\* --------------------------------------------------------------- C10
\* C10: every stored order has status "completed", and an entry is added to
\* the order mapping only by a request that answers 200 with that order: a
\* request that answers an error adds none.
C10_OnlyCompletedOrdersStored ==
    /\ [](\A o \in DOMAIN orders_db : orders_db[o].status = "completed")
    /\ [][/\ DOMAIN orders_db \subseteq DOMAIN orders_db'
          /\ \A o \in DOMAIN orders_db' \ DOMAIN orders_db :
                /\ orders_db'[o].status = "completed"
                /\ handler' = "create_order"
                /\ response' = Ok(orders_db'[o])
          /\ response'.status # 200 => orders_db' = orders_db]_vars

\* an order is stored and requests have since failed in validation and in
\* payment (the last answer is a declined payment, the identifiers drawn
\* outnumber the orders)
C10_Witness ==
    /\ orders_db # <<>>
    /\ uuids > Cardinality(DOMAIN orders_db)
    /\ handler = "create_order"
    /\ response = HTTPException(400, <<"Payment failed">>)

\* --------------------------------------------------------------- C11
\* C11: no step removes a product or changes a stored product's id, name or
\* price; no step raises a stock; a stock changes only in the step in which
\* a create_order whose payment was accepted answers 200 with an order
\* listing that product.  So create_product, get_order and stress_test
\* leave the stock of every existing product alone.
C11_ProductsOnlyDecremented ==
    [][/\ DOMAIN products_db \subseteq DOMAIN products_db'
       /\ \A p \in DOMAIN products_db :
             /\ products_db'[p].id = products_db[p].id
             /\ products_db'[p].name = products_db[p].name
             /\ products_db'[p].price = products_db[p].price
             /\ products_db'[p].stock <= products_db[p].stock
             /\ products_db'[p].stock # products_db[p].stock =>
                   /\ \E r \in Reqs : process_payment(r, TRUE)
                   /\ handler' = "create_order"
                   /\ response'.status = 200
                   /\ p \in Listed(response'.body.products)
       /\ (\/ \E product \in Product : create_product(product)
           \/ \E oid \in OrderIds : get_order(oid)
           \/ \E result \in StressResults : stress_test(result))
          => \A p \in DOMAIN products_db :
                products_db'[p] = products_db[p]]_vars

\* a conflicting create_product was just answered for a product whose stock
\* an earlier order has decremented: the stock is still the decremented one
C11_Witness ==
    /\ handler = "create_product"
    /\ response = HTTPException(400, <<"Product ID already exists">>)
    /\ \E p \in DOMAIN products_db, o \in DOMAIN orders_db :
          /\ p \in Listed(orders_db[o].products)
          /\ products_db[p].stock < registered[p]

\* --------------------------------------------------------------- C13
\* occurrences of identifier p over all stored orders
RECURSIVE OccurrencesIn(_, _)
OccurrencesIn(p, oids) ==
    IF oids = {} THEN 0
    ELSE LET o == CHOOSE x \in oids : TRUE
         IN  Count(p, orders_db[o].products) + OccurrencesIn(p, oids \ {o})

\* C13: in every reachable state, under any interleaving, the stock a
\* product was registered with minus its current stock is the number of
\* occurrences of its identifier over all stored orders.
C13_StockConservation ==
    \A p \in DOMAIN products_db :
        registered[p] - products_db[p].stock =
            OccurrencesIn(p, DOMAIN orders_db)

\* an order listing a product twice is stored while another request for
\* the same product is suspended in its payment
C13_Witness ==
    \E p \in DOMAIN products_db, o \in DOMAIN orders_db, r \in Reqs :
        /\ orders_db[o].products = <<p, p>>
        /\ products_db[p].stock = registered[p] - 2
        /\ pc[r] = "pay"

\* --------------------------------------------------------------- C14
Offending == Unknown \cup OutOfStock

\* C14: a create_order whose list holds an offending identifier (unknown, or
\* of a product with stock <= 0) fails with the error of the first offending
\* identifier in list order, naming it: 404 not-found if it is unknown, 400
\* out-of-stock if it is a product with stock <= 0, whatever follows it.
C14_FirstOffendingIdDecides ==
    [][\A r \in Reqs, pids \in IdLists :
          (create_order(r, pids) /\ Listed(pids) \cap Offending # {})
          =>
            LET k == FirstIn(pids, Offending)
            IN  response' =
                  IF pids[k] \in Unknown
                  THEN HTTPException(404, <<"Product not found", pids[k]>>)
                  ELSE HTTPException(400,
                          <<"Product out of stock", pids[k]>>)]_vars

\* an out-of-stock error was just answered while an identifier is unknown
\* (so the unknown one may follow the product named in the error)
C14_Witness ==
    \E p \in OutOfStock :
        /\ handler = "create_order"
        /\ response = HTTPException(400, <<"Product out of stock", p>>)
        /\ Unknown # {}

\* --------------------------------------------------------------- C15
\* C15: with no other create_order in flight, a request listing one
\* identifier any number of times (at least once) passes validation whenever
\* that product's stock is >= 1, with total that many times its price; and
\* when its payment is accepted the stock drops by the length of the list,
\* below 0 when the list is longer than the stock.
C15_RepeatedIdOversells ==
    [][\A p \in DOMAIN products_db :
          /\ \A r \in Reqs, pids \in IdLists :
                (/\ create_order(r, pids)
                 /\ Listed(pids) = {p}
                 /\ products_db[p].stock >= 1)
                =>
                  /\ pc'[r] = "pay"
                  /\ product_ids'[r] = pids
                  /\ total'[r] = Len(pids) * products_db[p].price
          /\ \A r \in Reqs :
                (process_payment(r, TRUE) /\ Listed(product_ids[r]) = {p})
                =>
                  /\ response'.status = 200
                  /\ products_db'[p].stock =
                        products_db[p].stock - Len(product_ids[r])
                  /\ Len(product_ids[r]) > products_db[p].stock =>
                        products_db'[p].stock < 0]_vars

\* the only request of the run listed a product of stock 1 twice and was
\* accepted: the stock is -1
C15_Witness ==
    \E p \in DOMAIN products_db, o \in DOMAIN orders_db :
        /\ uuids = 1
        /\ registered[p] = 1
        /\ orders_db[o].products = <<p, p>>
        /\ products_db[p].stock = -1

\* --------------------------------------------------------------- C16
\* C16: the order mapping only grows and its entries never change; the
\* identifiers held by suspended requests differ from each other and from
\* every stored key; a step adds an entry exactly when a payment is
\* accepted, and then exactly one, under the identifier of that request,
\* which was not present before.
C16_OrdersAppendOnlyFreshIds ==
    /\ [](\A r \in Reqs :
             pc[r] = "pay" =>
                /\ order_id[r] \notin DOMAIN orders_db
                /\ \A q \in Reqs :
                      (q # r /\ pc[q] = "pay") => order_id[q] # order_id[r])
    /\ [][/\ DOMAIN orders_db \subseteq DOMAIN orders_db'
          /\ \A o \in DOMAIN orders_db : orders_db'[o] = orders_db[o]
          /\ \A r \in Reqs :
                process_payment(r, TRUE) =>
                   /\ order_id[r] \notin DOMAIN orders_db
                   /\ DOMAIN orders_db' = DOMAIN orders_db \cup {order_id[r]}
                   /\ orders_db'[order_id[r]].id = order_id[r]
          /\ DOMAIN orders_db' # DOMAIN orders_db =>
                /\ \E r \in Reqs : process_payment(r, TRUE)
                /\ Cardinality(DOMAIN orders_db') =
                      Cardinality(DOMAIN orders_db) + 1]_vars

\* two overlapping requests were both accepted: two entries under two keys
C16_Witness ==
    /\ Cardinality(DOMAIN orders_db) = 2
    /\ \A o \in DOMAIN orders_db : orders_db[o].id = o
    /\ \E p \in DOMAIN products_db : products_db[p].stock < 0

\* --------------------------------------------------------------- C17
\* C17: create_product is one step, so of all create_product requests for
\* one identifier, however interleaved with other requests, exactly one
\* answers 200: the request handled while the identifier is absent.  Every
\* request handled once it is present answers the conflict error, and the
\* stored record stays the one the successful request submitted (its stock
\* apart, which only orders decrement).
C17_OneCreateProductWins ==
    /\ [](\A p \in DOMAIN products_db :
             /\ p \in DOMAIN registered
             /\ [products_db[p] EXCEPT !.stock = registered[p]] \in Product
             /\ products_db[p].id = p)
    /\ [][/\ \A product \in Product :
                create_product(product) =>
                   /\ (response'.status = 200) =
                         (product.id \notin DOMAIN products_db)
                   /\ response'.status # 200 => response' =
                         HTTPException(400, <<"Product ID already exists">>)
                   /\ response'.status = 200 =>
                         /\ products_db'[product.id] = product
                         /\ registered'[product.id] = product.stock
          /\ \A p \in DOMAIN registered :
                /\ p \in DOMAIN registered'
                /\ registered'[p] = registered[p]]_vars

\* both identifiers are stored, a create_order is suspended, and a further
\* create_product has just been refused
C17_Witness ==
    /\ DOMAIN products_db = ProductIds
    /\ \E r \in Reqs : pc[r] = "pay"
    /\ handler = "create_product"
    /\ response = HTTPException(400, <<"Product ID already exists">>)

\* --------------------------------------------------------------- C18
\* C18: a create_order with an empty list passes validation and is
\* suspended in the payment with amount 0; when the payment is accepted it
\* stores and returns an order with an empty product list, total 0 and
\* status "completed" and changes no stock; when the payment is declined it
\* answers 400 and stores nothing.
C18_EmptyOrder ==
    [][\A r \in Reqs :
          /\ create_order(r, <<>>) =>
                /\ pc'[r] = "pay"
                /\ product_ids'[r] = <<>>
                /\ total'[r] = 0
                /\ UNCHANGED <<products_db, orders_db, handler, response>>
          /\ (process_payment(r, TRUE) /\ product_ids[r] = <<>>) =>
                /\ response' =
                      Ok(Order(order_id[r], <<>>, 0, "completed"))
                /\ orders_db' = Put(orders_db, order_id[r], response'.body)
                /\ order_id[r] \notin DOMAIN orders_db
                /\ products_db' = products_db
          /\ (process_payment(r, FALSE) /\ product_ids[r] = <<>>) =>
                /\ response' = HTTPException(400, <<"Payment failed">>)
                /\ UNCHANGED <<products_db, orders_db>>]_vars

\* an empty order was just stored and returned while products are stored
C18_Witness ==
    \E o \in DOMAIN orders_db :
        /\ handler = "create_order"
        /\ response = Ok(orders_db[o])
        /\ orders_db[o] = Order(o, <<>>, 0, "completed")
        /\ products_db # <<>>
        /\ \A p \in DOMAIN products_db : products_db[p].stock = registered[p]

\* --------------------------------------------------------------- C12
\* C12: under fair scheduling every create_order suspended in its payment
\* eventually leaves it (with a stored order or an error response), however
\* many other requests are in flight.  A slot is "pay" or "idle" and leaves
\* "pay" only when its request finishes, so this is: no slot stays
\* suspended for ever, i.e. (pc[r] = "pay") ~> (pc[r] = "idle").
C12_PaymentAlwaysResolves ==
    \A r \in Reqs : []<>(pc[r] = "idle")

\* every slot holds a request suspended in its payment
C12_Witness ==
    \A r \in Reqs : pc[r] = "pay"

====
